---------------------------- MODULE Spec2Model ----------------------------
(***************************************************************************)
(* A model of main.py of addCSVtoOSM: the address normaliser               *)
(* (parse_address), the CSV extractor (extract_csv_data), the OSM          *)
(* extractor (extract_osm_data), the reconciler (append_xml), the map      *)
(* publisher (map_addresses) and the __main__ pipeline that chains them.   *)
(*                                                                         *)
(* A Python str is a sequence of one-character strings.  A Python dict is  *)
(* a sequence of <<key, value>> pairs in insertion order.                  *)
(***************************************************************************)
EXTENDS Integers, Sequences, FiniteSets, TLC

VARIABLES
    pc,                 \* the statement the run is at
    error,              \* the exception that ended the run, or NoError
    raw,                \* parse_address: the argument of the pending/last call
    result,             \* parse_address: the outcome of the last call
    canon,              \* parse_address: raw is the value an earlier call returned
    rows,               \* extract_csv_data: the data rows of data.csv (header skipped)
    row_i,              \* extract_csv_data: number of rows the loop has consumed
    dwelling_dict,      \* extract_csv_data: the dict under construction
    csv_dict,           \* __main__: the dict extract_csv_data returned
    tree,               \* the elements under the root of data.xml, in document order
    xml_dict,           \* __main__: the dict extract_osm_data returned
    xml_tree,           \* append_xml: its own parse of data.xml, mutated in place
    elem_i,             \* append_xml: number of element_dict items the loop has consumed
    addresses,          \* __main__: the output dict append_xml fills
    osm_file,           \* portland_dwelling_units.osm on disk
    mapped_addresses,   \* map_addresses: the loop counter
    markers,            \* map_addresses: number of markers added to the map
    map_i,              \* map_addresses: number of address_dict items the loop has consumed
    map_file            \* map.html on disk

vars == << pc, error, raw, result, canon, rows, row_i, dwelling_dict, csv_dict,
           tree, xml_dict, xml_tree, elem_i, addresses, osm_file,
           mapped_addresses, markers, map_i, map_file >>

-----------------------------------------------------------------------------
(* Characters and the str methods parse_address uses.                      *)

UpperLetters ==
    << "A","B","C","D","E","F","G","H","I","J","K","L","M",
       "N","O","P","Q","R","S","T","U","V","W","X","Y","Z" >>

LowerLetters ==
    << "a","b","c","d","e","f","g","h","i","j","k","l","m",
       "n","o","p","q","r","s","t","u","v","w","x","y","z" >>

Digits == { "0","1","2","3","4","5","6","7","8","9" }

Letters == { UpperLetters[i] : i \in 1..26 } \cup { LowerLetters[i] : i \in 1..26 }

\* \s of the regular expression, and what str.strip() and str.split() cut at
Whitespace == { " ", "\t", "\n" }

\* \w of the regular expression: letters, digits and the underscore
WordChars == Letters \cup Digits \cup { "_" }

\* str.isalnum() of one character
IsAlnum(c) == c \in Letters \cup Digits

\* the characters in code-point order, for the comparison of str values
CodePointOrder ==
    << "\t", "\n", " ", ",", "-", "." >>
    \o << "0","1","2","3","4","5","6","7","8","9" >>
    \o UpperLetters \o << "_" >> \o LowerLetters

ord(c) == CHOOSE i \in 1..Len(CodePointOrder) : CodePointOrder[i] = c

lower_char(c) ==
    IF \E i \in 1..26 : UpperLetters[i] = c
    THEN LowerLetters[CHOOSE i \in 1..26 : UpperLetters[i] = c]
    ELSE c

\* str.lower()
lower(s) == [ i \in 1..Len(s) |-> lower_char(s[i]) ]

RECURSIVE lstrip(_)
lstrip(s) ==
    IF s # << >> /\ Head(s) \in Whitespace THEN lstrip(Tail(s)) ELSE s

RECURSIVE rstrip(_)
rstrip(s) ==
    IF s # << >> /\ s[Len(s)] \in Whitespace
    THEN rstrip(SubSeq(s, 1, Len(s) - 1))
    ELSE s

\* str.strip()
strip(s) == rstrip(lstrip(s))

\* re.sub(r'[^\w\s]', '', s)
sub_punct(s) == SelectSeq(s, LAMBDA c : c \in WordChars \cup Whitespace)

RECURSIVE split_from(_, _, _)
split_from(s, cur, acc) ==
    IF s = << >>
    THEN IF cur = << >> THEN acc ELSE Append(acc, cur)
    ELSE IF Head(s) \in Whitespace
         THEN split_from(Tail(s), << >>, IF cur = << >> THEN acc ELSE Append(acc, cur))
         ELSE split_from(Tail(s), Append(cur, Head(s)), acc)

\* str.split() with no argument
split(s) == split_from(s, << >>, << >>)

RECURSIVE join(_, _)
\* sep.join(items)
join(sep, items) ==
    IF items = << >> THEN << >>
    ELSE IF Len(items) = 1 THEN items[1]
    ELSE items[1] \o sep \o join(sep, Tail(items))

\* str.isdigit()
isdigit(s) == s # << >> /\ \A i \in 1..Len(s) : s[i] \in Digits

\* str comparison a < b
RECURSIVE str_less(_, _)
str_less(a, b) ==
    IF b = << >> THEN FALSE
    ELSE IF a = << >> THEN TRUE
    ELSE IF Head(a) = Head(b) THEN str_less(Tail(a), Tail(b))
    ELSE ord(Head(a)) < ord(Head(b))

-----------------------------------------------------------------------------
(* Python dicts: <<key, value>> pairs in insertion order.                   *)

dict_keys(d) == { d[i][1] : i \in 1..Len(d) }

dict_has(d, k) == \E i \in 1..Len(d) : d[i][1] = k

dict_get(d, k) == d[CHOOSE i \in 1..Len(d) : d[i][1] = k][2]

\* d[k] = v: an existing key keeps its position
dict_set(d, k, v) ==
    IF dict_has(d, k)
    THEN [ i \in 1..Len(d) |-> IF d[i][1] = k THEN << k, v >> ELSE d[i] ]
    ELSE Append(d, << k, v >>)

RECURSIVE insert_sorted(_, _)
insert_sorted(item, d) ==
    IF d = << >> THEN << item >>
    ELSE IF str_less(item[1], d[1][1]) THEN << item >> \o d
    ELSE << d[1] >> \o insert_sorted(item, Tail(d))

RECURSIVE dict_sorted(_)
\* dict(sorted(d.items())): keys are distinct, so the key decides the order
dict_sorted(d) ==
    IF d = << >> THEN << >>
    ELSE insert_sorted(d[Len(d)], dict_sorted(SubSeq(d, 1, Len(d) - 1)))

-----------------------------------------------------------------------------
(* The abbreviation table.                                                  *)

street_types ==
    { <<<<"A","v","e">>, <<"A","v","e","n","u","e">>>>,
      <<<<"B","l","v","d">>, <<"B","o","u","l","e","v","a","r","d">>>>,
      <<<<"C","i","r">>, <<"C","i","r","c","l","e">>>>,
      <<<<"C","t">>, <<"C","o","u","r","t">>>>,
      <<<<"D","r">>, <<"D","r","i","v","e">>>>,
      <<<<"L","n">>, <<"L","a","n","e">>>>,
      <<<<"N">>, <<"N","o","r","t","h">>>>,
      <<<<"N","e">>, <<"N","o","r","t","h","e","a","s","t">>>>,
      <<<<"N","w">>, <<"N","o","r","t","h","w","e","s","t">>>>,
      <<<<"P","k","y">>, <<"P","a","r","k","w","a","y">>>>,
      <<<<"P","l">>, <<"P","l","a","c","e">>>>,
      <<<<"R","d">>, <<"R","o","a","d">>>>,
      <<<<"S">>, <<"S","o","u","t","h">>>>,
      <<<<"S","e">>, <<"S","o","u","t","h","e","a","s","t">>>>,
      <<<<"S","w">>, <<"S","o","u","t","h","w","e","s","t">>>>,
      <<<<"S","t">>, <<"S","t","r","e","e","t">>>>,
      <<<<"W">>, <<"W","e","s","t">>>> }

\* the table with the keys lowercased and the expansions left as written
street_types_values_as_written == { << lower(p[1]), p[2] >> : p \in street_types }

\* {k.lower(): v.lower() for k, v in street_types.items()}
street_types_lower == { << lower(p[1]), lower(p[2]) >> : p \in street_types }

in_table(tok) == \E p \in street_types_lower : p[1] = tok

table_get(tok) == (CHOOSE p \in street_types_lower : p[1] = tok)[2]

-----------------------------------------------------------------------------
(* parse_address.  An outcome is the returned str, or the exception.        *)

Returned(v) == [ raised |-> FALSE, value |-> v ]
Raised(e) == [ raised |-> TRUE, value |-> e ]
NoResult == [ raised |-> FALSE, value |-> << "?" >> ]

\* the unit test of line 54
unit_detected(street_parts) ==
    /\ Len(street_parts) > 1
    /\ \/ isdigit(street_parts[Len(street_parts)])
       \/ Len(street_parts[Len(street_parts)]) = 1

\* street_parts[:-1]
drop_last_one(street_parts) ==
    SubSeq(street_parts, 1, Len(street_parts) - 1)

\* street_parts[:-2]
drop_unit(street_parts) ==
    SubSeq(street_parts, 1, Len(street_parts) - 2)

\* the first street part left as it is
expand_first_skipped(street_parts) == street_parts

\* lines 62-63, on a non-empty list
expand_first(street_parts) ==
    IF in_table(lower(street_parts[1]))
    THEN [ street_parts EXCEPT ![1] = table_get(street_parts[1]) ]
    ELSE street_parts

\* lines 66-67, on a non-empty list
expand_last(street_parts) ==
    IF in_table(lower(street_parts[Len(street_parts)]))
    THEN [ street_parts EXCEPT ![Len(street_parts)] = table_get(street_parts[Len(street_parts)]) ]
    ELSE street_parts

parse_address(address) ==
    LET lowered  == lower(address)
        stripped == strip(lowered)
        cleaned  == sub_punct(stripped)
        parts    == split(cleaned)
    IN  IF Len(parts) < 1
        THEN Returned(cleaned)
        ELSE
          LET street_number == parts[1]
              street_parts  == Tail(parts)
              unit          == unit_detected(street_parts)
              number2       == IF unit
                               THEN join(<< "," >>, << street_number, street_parts[Len(street_parts)] >>)
                               ELSE street_number
              parts2        == IF unit THEN drop_unit(street_parts) ELSE street_parts
          IN  IF Len(parts2) = 0
              THEN Raised("IndexError")     \* street_parts[0] of an empty list
              ELSE
                LET parts3      == expand_first(parts2)
                    parts4      == expand_last(parts3)
                    street_name == join(<< " " >>, parts4)
                IN  Returned(join(<< " " >>, << number2, street_name >>))

-----------------------------------------------------------------------------
(* Bounds and input alphabets.                                              *)

\* most tokens of a raw address built from Vocabulary
MaxTokens == 5

\* most street tokens after the house number of a raw address built from the
\* words of an example
MaxStreetTokens == 4

TokenSeqs(V, n) == UNION { [ 1..k -> V ] : k \in 0..n }

\* tokens that exercise every branch of parse_address: a number, an upper-case
\* one-letter abbreviation, an abbreviation, a word with an underscore, a
\* punctuation-only token and the empty token (which doubles the separator)
Vocabulary ==
    { << "1" >>, << "N" >>, << "s","t" >>, << "b","_" >>, << "-" >>, << >> }

\* the house number and the street words of "123 Main St", "456 NE Oak Ave"
\* and "100 Pine St Apt 4"
ExampleWords ==
    { [ number |-> << "1","2","3" >>,
        words  |-> { << "M","a","i","n" >>, << "S","t" >> } ],
      [ number |-> << "4","5","6" >>,
        words  |-> { << "N","E" >>, << "O","a","k" >>, << "A","v","e" >> } ],
      [ number |-> << "1","0","0" >>,
        words  |-> { << "P","i","n","e" >>, << "S","t" >>, << "A","p","t" >>, << "4" >> } ] }

RawAddresses ==
    { join(<< " " >>, ws) : ws \in TokenSeqs(Vocabulary, MaxTokens) }
    \cup UNION { { join(<< " " >>, << e.number >> \o ws) :
                     ws \in TokenSeqs(e.words, MaxStreetTokens) } : e \in ExampleWords }

-----------------------------------------------------------------------------
(* Values of the variables a specification does not use.                    *)

NoError == [ at |-> "none", type |-> "none" ]

NormIdle ==
    /\ raw = << >>
    /\ result = NoResult
    /\ canon = FALSE

CsvIdle ==
    /\ rows = << >>
    /\ row_i = 0
    /\ dwelling_dict = << >>

OsmIdle ==
    /\ tree = << >>
    /\ xml_dict = << >>
    /\ xml_tree = << >>
    /\ elem_i = 0
    /\ addresses = << >>
    /\ osm_file = "absent"

MapIdle ==
    /\ mapped_addresses = 0
    /\ markers = 0
    /\ map_i = 0
    /\ map_file = "absent"

norm_vars == << raw, result, canon >>
csv_vars == << rows, row_i, dwelling_dict, csv_dict >>
osm_vars == << tree, xml_dict, xml_tree, elem_i, addresses, osm_file >>
map_vars == << mapped_addresses, markers, map_i, map_file >>

-----------------------------------------------------------------------------
(* parse_address called on its own, and called again on what it returned.   *)

InitNorm ==
    /\ pc = "parse_address"
    /\ error = NoError
    /\ raw \in RawAddresses
    /\ result = NoResult
    /\ canon = FALSE
    /\ CsvIdle /\ csv_dict = << >>
    /\ OsmIdle
    /\ MapIdle

\* the call parse_address(raw)
ParseAddress ==
    /\ pc = "parse_address"
    /\ result' = parse_address(raw)
    /\ pc' = IF result'.raised THEN "parse_raised" ELSE "parse_returned"
    /\ UNCHANGED << error, raw, canon, csv_vars, osm_vars, map_vars >>

\* the caller passes the returned value to parse_address again
Renormalize ==
    /\ pc = "parse_returned"
    /\ ~canon
    /\ raw' = result.value
    /\ canon' = TRUE
    /\ result' = NoResult
    /\ pc' = "parse_address"
    /\ UNCHANGED << error, csv_vars, osm_vars, map_vars >>

NextNorm == ParseAddress \/ Renormalize

SpecNorm == InitNorm /\ [][NextNorm]_vars

-----------------------------------------------------------------------------
(* Properties of parse_address, checked under SpecNorm.                     *)

ParseEnded == pc \in { "parse_returned", "parse_raised" }

\* the tokens parse_address splits its argument into
InputTokens(address) == split(sub_punct(strip(lower(address))))

\* the tokens of a returned value that follow the house number
StreetTokensOf(value) == Tail(split(value))

Addr_123_Main_St == <<"1","2","3"," ","M","a","i","n"," ","S","t">>
Addr_456_NE_Oak_Ave == <<"4","5","6"," ","N","E"," ","O","a","k"," ","A","v","e">>
Addr_100_Pine_St_Apt_4 == <<"1","0","0"," ","P","i","n","e"," ","S","t"," ","A","p","t"," ","4">>
Canon_123_main_street == <<"1","2","3"," ","m","a","i","n"," ","s","t","r","e","e","t">>
Canon_456_ne_oak_avenue == <<"4","5","6"," ","n","e"," ","o","a","k"," ","a","v","e","n","u","e">>
Canon_456_northeast_oak_avenue ==
    <<"4","5","6"," ","n","o","r","t","h","e","a","s","t"," ","o","a","k"," ","a","v","e","n","u","e">>
Canon_100_4_pine == <<"1","0","0",",","4"," ","p","i","n","e">>
Canon_100_4_pine_street == <<"1","0","0",",","4"," ","p","i","n","e"," ","s","t","r","e","e","t">>

\* C1: parse_address raises no error for any input string: every call
\* completes and returns a string.
C1_NeverRaises ==
    pc # "parse_raised"

\* C3 as stated: normalize("123 Main St") = "123 main street" and
\* normalize("456 NE Oak Ave") = "456 ne oak avenue".
C3_ExamplesAsStated ==
    ParseEnded =>
        /\ raw = Addr_123_Main_St => result = Returned(Canon_123_main_street)
        /\ raw = Addr_456_NE_Oak_Ave => result = Returned(Canon_456_ne_oak_avenue)

\* C3 amended: normalize("123 Main St") = "123 main street" and
\* normalize("456 NE Oak Ave") = "456 northeast oak avenue"; in every returned
\* address the first and the last street token are expanded, so neither is an
\* abbreviation-table key.
C3_Expansion ==
    ParseEnded =>
        /\ raw = Addr_123_Main_St => result = Returned(Canon_123_main_street)
        /\ raw = Addr_456_NE_Oak_Ave => result = Returned(Canon_456_northeast_oak_avenue)
        /\ (~result.raised /\ Len(split(result.value)) > 1) =>
              LET street == StreetTokensOf(result.value)
              IN  /\ ~in_table(street[1])
                  /\ ~in_table(street[Len(street)])

\* the call on "456 NE Oak Ave" has returned, with its first street token expanded
C3_Witness ==
    /\ pc = "parse_returned"
    /\ raw = Addr_456_NE_Oak_Ave
    /\ result = Returned(Canon_456_northeast_oak_avenue)

C6_CanonicalForm ==
    pc = "parse_returned" =>
        LET v == result.value
        IN  /\ v = lower(v)
            /\ split(v) # << >> => v = join(<< " " >>, split(v))
            /\ \A i \in 1..Len(v) :
                   \/ IsAlnum(v[i])
                   \/ v[i] \in Whitespace
                   \/ v[i] = ","

-----------------------------------------------------------------------------
(* extract_csv_data.  rows is the file as csv.reader yields it, the header  *)
(* row first; a row is a sequence of str columns.                           *)

\* most data rows of data.csv
MaxRows == 2

Header == << << "a","d","d","r","e","s","s" >>, << "x" >>, << "u","n","i","t","s" >> >>

CsvRawAddresses ==
    { << "1","0","0"," ","M","a","i","n"," ","S","t" >>,        \* "100 main street"
      << "1","0","0"," ","m","a","i","n"," "," ","s","t","." >>, \* "100 main street" again
      << "2"," ","O","a","k" >>,                         \* "2 oak", 5 characters
      << "1"," ","b" >>,                                 \* "1 b", 3 characters
      << >>,                                             \* "", empty
      << "M","a","i","n" >> }                            \* one token

CsvUnits == { << "4" >>, << "9" >> }

CsvRows ==
    { << >> }
    \cup { << a >> : a \in { << "1"," ","b" >>, << "2"," ","O","a","k" >> } }
    \cup { << a, << "x" >>, u >> : a \in CsvRawAddresses, u \in CsvUnits }

CsvFiles ==
    { << >> } \cup { << Header >> \o data : data \in TokenSeqs(CsvRows, MaxRows) }

Abort(at, type) ==
    /\ pc' = "aborted"
    /\ error' = [ at |-> at, type |-> type ]

\* open(filename, 'r') fails
CsvOpenFails ==
    /\ pc = "extract_csv_data"
    /\ Abort("extract_csv_data", "OSError")
    /\ UNCHANGED << norm_vars, csv_vars, osm_vars, map_vars >>

\* lines 82-88: the file opens, the reader skips the first row
CsvOpen ==
    /\ pc = "extract_csv_data"
    /\ dwelling_dict' = << >>
    /\ IF rows = << >>
       THEN /\ Abort("extract_csv_data", "StopIteration")    \* next(reader) on an empty file
            /\ row_i' = row_i
       ELSE /\ pc' = "csv_loop"
            /\ row_i' = 1
            /\ error' = error
    /\ UNCHANGED << norm_vars, rows, csv_dict, osm_vars, map_vars >>

\* the outcome of one pass of the loop body, lines 90-100, on `row`
csv_body(d, row) ==
    IF row = << >>
    THEN [ raised |-> FALSE, dict |-> d ]
    ELSE LET address == parse_address(row[1])
         IN  IF address.raised
             THEN [ raised |-> TRUE, dict |-> d ]
             ELSE IF Len(address.value) < 5
             THEN [ raised |-> FALSE, dict |-> d ]
             ELSE IF Len(row) < 3
             THEN [ raised |-> TRUE, dict |-> d ]            \* row[2]
             ELSE [ raised |-> FALSE, dict |-> dict_set(d, address.value, row[3]) ]

\* one pass of `for row in reader`
CsvRow ==
    /\ pc = "csv_loop"
    /\ row_i < Len(rows)
    /\ LET out == csv_body(dwelling_dict, rows[row_i + 1])
       IN  /\ dwelling_dict' = out.dict
           /\ row_i' = row_i + 1
           /\ IF out.raised
              THEN Abort("extract_csv_data", "IndexError")
              ELSE UNCHANGED << pc, error >>
    /\ UNCHANGED << norm_vars, rows, csv_dict, osm_vars, map_vars >>

\* line 103: the reader is exhausted, the sorted dict is returned to __main__
CsvReturn ==
    /\ pc = "csv_loop"
    /\ row_i = Len(rows)
    /\ csv_dict' = dict_sorted(dwelling_dict)
    /\ pc' = "extract_osm_data"
    /\ UNCHANGED << error, norm_vars, rows, row_i, dwelling_dict, osm_vars, map_vars >>

InitCsv ==
    /\ pc = "extract_csv_data"
    /\ error = NoError
    /\ NormIdle
    /\ rows \in CsvFiles
    /\ row_i = 0
    /\ dwelling_dict = << >>
    /\ csv_dict = << >>
    /\ OsmIdle
    /\ MapIdle

NextCsv == CsvOpenFails \/ CsvOpen \/ CsvRow \/ CsvReturn

SpecCsv == InitCsv /\ [][NextCsv]_vars

\* extract_csv_data has returned or raised
CsvEnded == pc \in { "extract_osm_data", "aborted" }

DataRows == Tail(rows)

\* C7: after any sequence of data rows that each have at least 3 columns, the
\* returned mapping has as keys exactly the normalized addresses of length >= 5
\* among the rows, and each key maps to column 2 of the last row that
\* normalizes to it.
C7_Extracted ==
    (/\ CsvEnded
     /\ rows # << >>
     /\ error.type # "OSError"
     /\ \A i \in 1..Len(DataRows) : Len(DataRows[i]) >= 3) =>
        /\ pc = "extract_osm_data"
        /\ dict_keys(csv_dict) =
              { parse_address(DataRows[i][1]).value : i \in
                  { j \in 1..Len(DataRows) : Len(parse_address(DataRows[j][1]).value) >= 5 } }
        /\ \A k \in dict_keys(csv_dict) :
              LET last == CHOOSE i \in 1..Len(DataRows) :
                             /\ parse_address(DataRows[i][1]).value = k
                             /\ \A j \in (i + 1)..Len(DataRows) :
                                    parse_address(DataRows[j][1]).value # k
              IN  dict_get(csv_dict, k) = DataRows[last][3]

\* C7, restricted to the runs in which no parse_address call raises: the
\* statement of C7_Extracted then holds.
C7_ExtractedUnlessParseRaises ==
    error.type = "IndexError" \/ C7_Extracted

-----------------------------------------------------------------------------
(* data.xml.  tree is the sequence of the root's child elements in document *)
(* order; an element has a tag name (kind), an id attribute or none, and    *)
(* its child <tag k= v=> elements in order.                                 *)

\* most elements of data.xml
MaxElements == 2

NoAttr == "<no attribute>"

HouseNumberKey == "addr:housenumber"
StreetKey == "addr:street"

Tag(k, v) == [ k |-> k, v |-> v ]

Hn100 == Tag(HouseNumberKey, << "1","0","0" >>)
StMain == Tag(StreetKey, << "M","a","i","n"," ","S","t","r","e","e","t" >>)
StOak == Tag(StreetKey, << "o","a","k"," ","a","v","e","n","u","e" >>)

Addr_100_main_street == << "1","0","0"," ","m","a","i","n"," ","s","t","r","e","e","t" >>
Addr_100_oak_avenue == << "1","0","0"," ","o","a","k"," ","a","v","e","n","u","e" >>

ElementKinds == { "node", "way", "relation" }
ElementIds == { "7", "8", NoAttr }
ChildLists == { << >>, << Hn100, StMain >>, << StOak, Hn100 >>, << StMain >> }

Elements ==
    [ kind : ElementKinds, id : ElementIds, children : ChildLists ]

Trees == TokenSeqs(Elements, MaxElements)

\* the dwelling-unit dicts the reconciler is given
RecordDicts ==
    { << >>,
      << << Addr_100_main_street, << "4" >> >> >>,
      << << Addr_100_main_street, << "4" >> >>, << Addr_100_oak_avenue, << "9" >> >> >> }

\* str(element.get('id'))
str_id(element) == IF element.id = NoAttr THEN "None" ELSE element.id

\* tag[@k='addr:street' or @k='addr:housenumber']
address_tags(element) ==
    SelectSeq(element.children, LAMBDA t : t.k \in { StreetKey, HouseNumberKey })

\* //node|//way[descendant::tag[@k='addr:street' or @k='addr:housenumber']]
is_building_element(element) ==
    \/ element.kind = "node"
    \/ element.kind = "way" /\ address_tags(element) # << >>

RECURSIVE tags_dict(_)
\* lines 119-121: the later tag of a key overwrites the earlier one
tags_dict(tag_elements) ==
    IF tag_elements = << >> THEN << >>
    ELSE LET t == tag_elements[Len(tag_elements)]
         IN  dict_set(tags_dict(SubSeq(tag_elements, 1, Len(tag_elements) - 1)), t.k, t.v)

\* line 123, for an element with both keys
address_of(element) ==
    LET tags == tags_dict(address_tags(element))
    IN  lower(join(<< " " >>, << dict_get(tags, HouseNumberKey), dict_get(tags, StreetKey) >>))

has_address(element) == Len(tags_dict(address_tags(element))) > 1

RECURSIVE extract_osm_data(_)
\* lines 113-126 on the parsed tree
extract_osm_data(t) ==
    IF t = << >> THEN << >>
    ELSE LET before  == extract_osm_data(SubSeq(t, 1, Len(t) - 1))
             element == t[Len(t)]
         IN  IF is_building_element(element) /\ has_address(element)
             THEN dict_set(before, str_id(element), address_of(element))
             ELSE before

\* the position of xml_tree.find(f".//*[@id='{id}']"), 0 for None
find_by_id(t, id) ==
    IF \E k \in 1..Len(t) : t[k].id # NoAttr /\ t[k].id = id
    THEN CHOOSE k \in 1..Len(t) :
            /\ t[k].id # NoAttr /\ t[k].id = id
            /\ \A j \in 1..(k - 1) : ~(t[j].id # NoAttr /\ t[j].id = id)
    ELSE 0

DwellingTag(v) == Tag("dwelling_units", v)

\* open() or et.parse() of data.xml fails
ExtractOsmFails ==
    /\ pc = "extract_osm_data"
    /\ Abort("extract_osm_data", "OSError")
    /\ UNCHANGED << norm_vars, csv_vars, osm_vars, map_vars >>

\* line 185: xml_dict = extract_osm_data('data.xml')
ExtractOsmData ==
    /\ pc = "extract_osm_data"
    /\ xml_dict' = extract_osm_data(tree)
    /\ pc' = "append_xml"
    /\ UNCHANGED << error, norm_vars, csv_vars, tree, xml_tree, elem_i, addresses,
                    osm_file, map_vars >>

\* et.parse(xml_file) in append_xml fails
AppendParseFails ==
    /\ pc = "append_xml"
    /\ Abort("append_xml", "OSError")
    /\ UNCHANGED << norm_vars, csv_vars, osm_vars, map_vars >>

\* lines 134-136: append_xml parses the file again
AppendParse ==
    /\ pc = "append_xml"
    /\ xml_tree' = tree
    /\ elem_i' = 0
    /\ pc' = "append_loop"
    /\ UNCHANGED << error, norm_vars, csv_vars, tree, xml_dict, addresses, osm_file, map_vars >>

\* one pass of the loop body, lines 137-153, for the item (id, address)
AppendIterBody(write_each_pass) ==
    LET id      == xml_dict[elem_i + 1][1]
        address == xml_dict[elem_i + 1][2]
        found   == find_by_id(xml_tree, id)
    IN  /\ elem_i' = elem_i + 1
        /\ IF ~dict_has(csv_dict, address) \/ found = 0
           THEN UNCHANGED << pc, error, addresses, xml_tree, osm_file >>
           ELSE /\ addresses' = dict_set(addresses, id, address)
                /\ IF xml_tree[found].children = << >>
                   THEN /\ Abort("append_xml", "IndexError")     \* node_element[0]
                        /\ UNCHANGED << xml_tree, osm_file >>
                   ELSE /\ xml_tree' =
                             [ xml_tree EXCEPT ![found].children =
                                 Append(@, DwellingTag(dict_get(csv_dict, address))) ]
                        /\ osm_file' = IF write_each_pass THEN "written" ELSE osm_file
                        /\ UNCHANGED << pc, error >>

\* the loop body followed by a write of the file in every pass
AppendIterWritingEachPass ==
    /\ pc = "append_loop"
    /\ elem_i < Len(xml_dict)
    /\ AppendIterBody(TRUE)
    /\ UNCHANGED << norm_vars, csv_vars, tree, xml_dict, map_vars >>

\* one pass of `for id, address in element_dict.items()`
AppendIter ==
    /\ pc = "append_loop"
    /\ elem_i < Len(xml_dict)
    /\ AppendIterBody(FALSE)
    /\ UNCHANGED << norm_vars, csv_vars, tree, xml_dict, map_vars >>

\* line 156 fails: the file is missing or cut short
AppendWriteFails ==
    /\ pc = "append_loop"
    /\ elem_i = Len(xml_dict)
    /\ osm_file' \in { "absent", "partial" }
    /\ Abort("append_xml", "OSError")
    /\ UNCHANGED << norm_vars, csv_vars, tree, xml_dict, xml_tree, elem_i, addresses, map_vars >>

\* line 156: the tree is written, append_xml returns to __main__
AppendWrite ==
    /\ pc = "append_loop"
    /\ elem_i = Len(xml_dict)
    /\ osm_file' = "written"
    /\ pc' = "map_addresses"
    /\ UNCHANGED << error, norm_vars, csv_vars, tree, xml_dict, xml_tree, elem_i, addresses,
                    map_vars >>

InitOsm ==
    /\ pc = "extract_osm_data"
    /\ error = NoError
    /\ NormIdle
    /\ CsvIdle
    /\ csv_dict \in RecordDicts
    /\ tree \in Trees
    /\ xml_dict = << >>
    /\ xml_tree = << >>
    /\ elem_i = 0
    /\ addresses = << >>
    /\ osm_file = "absent"
    /\ MapIdle

NextOsm ==
    \/ ExtractOsmFails \/ ExtractOsmData
    \/ AppendParseFails \/ AppendParse \/ AppendIter \/ AppendWriteFails \/ AppendWrite

SpecOsm == InitOsm /\ [][NextOsm]_vars

-----------------------------------------------------------------------------
(* Properties of append_xml, checked under SpecOsm.                         *)

\* append_xml has returned, or raised something other than an I/O failure
AppendEnded ==
    \/ pc = "map_addresses"
    \/ pc = "aborted" /\ error.at = "append_xml" /\ error.type # "OSError"

\* the items of geo_elements whose address is a key of records and whose id
\* is found in the tree
MatchedItems ==
    { i \in 1..Len(xml_dict) :
        /\ dict_has(csv_dict, xml_dict[i][2])
        /\ find_by_id(tree, xml_dict[i][1]) # 0 }

\* the element extract_osm_data built the entry of `id` from: the last
\* selected element with that id and both address tags
source_element(id) ==
    CHOOSE k \in 1..Len(tree) :
        /\ is_building_element(tree[k]) /\ has_address(tree[k]) /\ str_id(tree[k]) = id
        /\ \A j \in (k + 1)..Len(tree) :
              ~(is_building_element(tree[j]) /\ has_address(tree[j]) /\ str_id(tree[j]) = id)

\* C2: append_xml, started with an empty output mapping, produces exactly the
\* entries of geo_elements whose address is a key of records and whose id is
\* found in the tree; each such element gains one appended dwelling_units tag
\* with v = records[address]; nothing else in the tree is mutated.
C2_Reconciled ==
    AppendEnded =>
        /\ pc = "map_addresses"
        /\ { addresses[i] : i \in 1..Len(addresses) } = { xml_dict[i] : i \in MatchedItems }
        /\ \A k \in 1..Len(tree) :
              IF \E i \in MatchedItems : find_by_id(tree, xml_dict[i][1]) = k
              THEN LET i == CHOOSE i \in MatchedItems : find_by_id(tree, xml_dict[i][1]) = k
                   IN  xml_tree[k] =
                          [ tree[k] EXCEPT !.children =
                              Append(@, DwellingTag(dict_get(csv_dict, xml_dict[i][2]))) ]
              ELSE xml_tree[k] = tree[k]

\* no two elements of data.xml carry the same id
IdsDistinct ==
    \A a, b \in 1..Len(tree) :
        (a # b /\ tree[a].id # NoAttr) => tree[a].id # tree[b].id

\* C2, restricted to trees without a repeated id: the statement of
\* C2_Reconciled then holds.
C2_ReconciledWhenIdsDistinct ==
    IdsDistinct => C2_Reconciled

\* C10: the element append_xml annotates for a matched entry (id, address) is
\* the node or way extract_osm_data built that entry from.
C10_AnnotatesSource ==
    \A k \in 1..Len(xml_tree) :
        xml_tree[k] # tree[k] =>
            \E i \in 1..Len(addresses) : source_element(addresses[i][1]) = k

-----------------------------------------------------------------------------
(* map_addresses.                                                           *)

\* line 167
max_addresses == 600

\* how far beyond max_addresses the largest matched mapping goes
MaxOver == 2

\* sizes of the matched mapping handed to map_addresses
MatchedSizes == { 0, 1 } \cup { max_addresses + k : k \in 0..MaxOver }

\* the geocoding service is a function of the address: the addresses it has a
\* location for (it returns None for the others)
Locatable == { Addr_100_main_street }

\* geolocator.geocode(address) is not None
geocode(address) == address \in Locatable

\* which entries of a matched mapping carry a locatable address
Patterns == { "all", "none", "alternate" }

\* a matched mapping of n entries with distinct ids
MatchedOfSize(n, pattern) ==
    [ i \in 1..n |->
        << i, IF pattern = "all" \/ (pattern = "alternate" /\ i % 2 = 1)
              THEN Addr_100_main_street
              ELSE Addr_100_oak_avenue >> ]

\* line 163: geolocator.geocode(city) fails on the network
MapStartFails ==
    /\ pc = "map_addresses"
    /\ Abort("map_addresses", "GeocoderServiceError")
    /\ UNCHANGED << norm_vars, csv_vars, osm_vars, map_vars >>

\* lines 161-167
MapStart ==
    /\ pc = "map_addresses"
    /\ mapped_addresses' = 0
    /\ markers' = 0
    /\ map_i' = 0
    /\ pc' = "map_loop"
    /\ UNCHANGED << error, norm_vars, csv_vars, osm_vars, map_file >>

\* whether the loop body runs once more: an item is left and line 169 does not break
map_loop_continues(mapped) ==
    map_i < Len(addresses) /\ ~(mapped > max_addresses)

\* lines 169-176 with geocode returning a location or None
MapIter ==
    /\ pc = "map_loop"
    /\ map_loop_continues(mapped_addresses)
    /\ map_i' = map_i + 1
    /\ mapped_addresses' = mapped_addresses + 1
    /\ markers' = IF geocode(addresses[map_i + 1][2]) THEN markers + 1 ELSE markers
    /\ UNCHANGED << pc, error, norm_vars, csv_vars, osm_vars, map_file >>

\* line 172: geolocator.geocode(address) fails on the network
MapGeocodeFails ==
    /\ pc = "map_loop"
    /\ map_loop_continues(mapped_addresses)
    /\ map_i' = map_i + 1
    /\ mapped_addresses' = mapped_addresses + 1
    /\ Abort("map_addresses", "GeocoderServiceError")
    /\ UNCHANGED << norm_vars, csv_vars, osm_vars, markers, map_file >>

\* the loop ends: the dict is exhausted or line 170 breaks
MapLoopEnds ==
    /\ pc = "map_loop"
    /\ ~map_loop_continues(mapped_addresses)
    /\ pc' = "map_save"
    /\ UNCHANGED << error, norm_vars, csv_vars, osm_vars, map_vars >>

\* line 177 fails
MapSaveFails ==
    /\ pc = "map_save"
    /\ map_file' \in { "absent", "partial" }
    /\ Abort("map_addresses", "OSError")
    /\ UNCHANGED << norm_vars, csv_vars, osm_vars, mapped_addresses, markers, map_i >>

\* lines 177-178: the map is saved and shown, the run ends
MapSave ==
    /\ pc = "map_save"
    /\ map_file' = "written"
    /\ pc' = "done"
    /\ UNCHANGED << error, norm_vars, csv_vars, osm_vars, mapped_addresses, markers, map_i >>

InitMap ==
    /\ pc = "map_addresses"
    /\ error = NoError
    /\ NormIdle
    /\ CsvIdle /\ csv_dict = << >>
    /\ tree = << >>
    /\ xml_dict = << >>
    /\ xml_tree = << >>
    /\ elem_i = 0
    /\ \E n \in MatchedSizes, pattern \in Patterns : addresses = MatchedOfSize(n, pattern)
    /\ osm_file = "written"
    /\ MapIdle

NextMap ==
    \/ MapStartFails \/ MapStart \/ MapIter \/ MapGeocodeFails \/ MapLoopEnds
    \/ MapSaveFails \/ MapSave

SpecMap == InitMap /\ [][NextMap]_vars

\* C8: map_addresses places at most 600 markers, whatever the size of the
\* matched mapping.
C8_Cap ==
    markers <= max_addresses

-----------------------------------------------------------------------------
(* __main__, lines 181-192: the four steps in sequence.                     *)

\* most elements of data.xml in a run of the whole pipeline
MaxMainElements == 3

\* data.csv of a pipeline run: empty, or the header and at most one data row
MainCsvFiles ==
    { << >> } \cup { << Header >> \o data : data \in TokenSeqs(CsvRows, 1) }

MainElements ==
    { [ kind |-> "node", id |-> "7", children |-> << >> ],
      [ kind |-> "way", id |-> "7", children |-> << Hn100, StMain >> ],
      [ kind |-> "way", id |-> "8", children |-> << Hn100, StMain >> ],
      [ kind |-> "node", id |-> "8", children |-> << StOak, Hn100 >> ] }

MainTrees == TokenSeqs(MainElements, MaxMainElements)

InitMain ==
    /\ pc = "extract_csv_data"
    /\ error = NoError
    /\ NormIdle
    /\ rows \in MainCsvFiles
    /\ row_i = 0
    /\ dwelling_dict = << >>
    /\ csv_dict = << >>
    /\ tree \in MainTrees
    /\ xml_dict = << >>
    /\ xml_tree = << >>
    /\ elem_i = 0
    /\ addresses = << >>
    /\ osm_file = "absent"
    /\ MapIdle

NextMain ==
    \/ CsvOpenFails \/ CsvOpen \/ CsvRow \/ CsvReturn
    \/ ExtractOsmFails \/ ExtractOsmData
    \/ AppendParseFails \/ AppendParse \/ AppendIter \/ AppendWriteFails \/ AppendWrite
    \/ MapStartFails \/ MapStart \/ MapIter \/ MapGeocodeFails \/ MapLoopEnds
    \/ MapSaveFails \/ MapSave

SpecMain == InitMain /\ [][NextMain]_vars

\* C9 as stated: in every run that aborts, at whichever step, the annotated
\* geodata output file has not been written.
C9_NoOutputAsStated ==
    pc = "aborted" => osm_file # "written"

\* C9 amended: a run that aborts in extract_csv_data, extract_osm_data or
\* append_xml has not written the annotated geodata file; a run that aborts
\* in map_addresses (a geocoding or map-saving failure) aborts after the
\* annotated file was written, and has not written the map.
C9_NoOutput ==
    pc = "aborted" =>
        /\ error.at # "map_addresses" => osm_file # "written"
        /\ error.at = "map_addresses" => osm_file = "written" /\ map_file # "written"

\* append_xml was interrupted after it had matched an entry
C9_Witness ==
    /\ pc = "aborted"
    /\ error.at = "append_xml"
    /\ Len(addresses) > 0
    /\ osm_file # "written"


\* C10, restricted to trees without a repeated id: the annotated element is
\* then the one the entry was built from.
C10_AnnotatesSourceWhenIdsDistinct ==
    IdsDistinct => C10_AnnotatesSource

=============================================================================
